---------------------------- MODULE Spec2Model ----------------------------
(***************************************************************************)
(* Model of the conversational data-query core of the data-factory app:    *)
(* the SQL validator (services/ai_service.py, validate_sql) and the tier   *)
(* orchestrator (chat_with_data with the Genie poller and the Bedrock      *)
(* text-to-SQL fallback), and the chat handler that calls it and records   *)
(* each answered request (components/chat_tab.py, respond, with            *)
(* services/audit_service.py, log_event).                                  *)
(*                                                                         *)
(* Text is modelled as a sequence of one-character strings, so that        *)
(* strip(), rstrip(";"), upper(), the ";" membership test and the          *)
(* whole-word regular expressions are computed character by character.     *)
(***************************************************************************)
EXTENDS Integers, Sequences, FiniteSets, TLC

VARIABLES
    candidate,   \* the string handed to validate_sql
    vpc,         \* validator harness position: "start", "validated", "revalidated"
    vres,        \* outcome of validate_sql(candidate)
    vres2        \* outcome of validate_sql(vres.sql), when vres succeeded

VARIABLES
    use_mock,          \* USE_MOCK
    genie_configured,  \* GENIE_SPACE_ID is not empty
    question,          \* chat_with_data's question
    conv_in,           \* chat_with_data's conversation_id
    pc,                \* position of the chat_with_data invocation
    conv,              \* _poll_genie's conversation_id
    wait,              \* _poll_genie's wait
    elapsed,           \* _poll_genie's elapsed
    genie_text,        \* _poll_genie's text
    genie_sql,         \* _poll_genie's sql
    raw_sql,           \* _bedrock_text_to_sql's raw_sql
    safe_sql,          \* _bedrock_text_to_sql's safe_sql
    df,                \* the DataFrame the executor returned
    exc,               \* the exception in flight
    t1_raised,         \* the exception tier 1 ended with, if any
    t2_raised,         \* the exception tier 2 ended with, if any
    response,          \* what chat_with_data returned
    log                \* the outbound calls, validations and sleeps so far

VARIABLES
    hpc,               \* position of the chat handler
    request_user,      \* what get_user_from_request returns for this session
    request_limit,     \* how many requests of this session are followed
    requests,          \* respond invocations so far
    orchestrator_calls, \* chat_with_data invocations by respond so far
    message,           \* respond's message
    result,            \* respond's result
    reply,             \* respond's reply
    audit_outcome,     \* how this request's log_event call ended
    audit_calls,       \* log_event invocations so far
    audit_trail,       \* the rows of logs/audit_trail.csv
    history,           \* the chatbot component: the visible messages
    msg_box,           \* the question textbox
    conv_id,           \* conv_id_state
    source_label,      \* the "Answered by" markdown
    results_table      \* the result table: hidden, or the DataFrame shown

vvars == <<candidate, vpc, vres, vres2>>

hvars == <<hpc, request_user, request_limit, requests, orchestrator_calls, message, result, reply, audit_outcome,
           audit_calls, audit_trail, history, msg_box, conv_id, source_label,
           results_table>>

ovars == <<use_mock, genie_configured, question, conv_in, pc, conv, wait,
           elapsed, genie_text, genie_sql, raw_sql, safe_sql, df, exc, t1_raised,
           t2_raised, response, log>>

vars == <<vvars, ovars, hvars>>

-----------------------------------------------------------------------------
(* Characters and Python's string primitives *)

\* str.upper() on the ASCII letters
UpperMap ==
    [a |-> "A", b |-> "B", c |-> "C", d |-> "D", e |-> "E", f |-> "F",
     g |-> "G", h |-> "H", i |-> "I", j |-> "J", k |-> "K", l |-> "L",
     m |-> "M", n |-> "N", o |-> "O", p |-> "P", q |-> "Q", r |-> "R",
     s |-> "S", t |-> "T", u |-> "U", v |-> "V", w |-> "W", x |-> "X",
     y |-> "Y", z |-> "Z"]

Lower == DOMAIN UpperMap
Letters == Lower \cup {UpperMap[c] : c \in Lower}
Digits == {"0", "1", "2", "3", "4", "5", "6", "7", "8", "9"}

\* the class \w of the re module
WordChars == Letters \cup Digits \cup {"_"}

\* what str.strip() removes
WhiteSpace == {" ", "\t", "\n", "\r"}

UpperChar(c) == IF c \in Lower THEN UpperMap[c] ELSE c

Upper(s) == [i \in 1..Len(s) |-> UpperChar(s[i])]

RECURSIVE lstrip(_)
lstrip(s) ==
    IF s = <<>> \/ Head(s) \notin WhiteSpace THEN s ELSE lstrip(Tail(s))

RECURSIVE rstrip(_)
rstrip(s) ==
    IF s = <<>> \/ s[Len(s)] \notin WhiteSpace THEN s
    ELSE rstrip(SubSeq(s, 1, Len(s) - 1))

strip(s) == rstrip(lstrip(s))

\* str.rstrip(";"): every trailing ";" is removed
RECURSIVE rstrip_semi(_)
rstrip_semi(s) ==
    IF s = <<>> \/ s[Len(s)] # ";" THEN s
    ELSE rstrip_semi(SubSeq(s, 1, Len(s) - 1))

\* the `";" in sql` test
Contains(s, c) == \E i \in 1..Len(s) : s[i] = c

\* kw matches at position i of u between two \b word boundaries
WordAt(u, kw, i) ==
    /\ i + Len(kw) - 1 <= Len(u)
    /\ SubSeq(u, i, i + Len(kw) - 1) = kw
    /\ (i = 1 \/ u[i - 1] \notin WordChars)
    /\ (i + Len(kw) > Len(u) \/ u[i + Len(kw)] \notin WordChars)

re_search_nobound(kw, u) ==
    \E i \in 1..Len(u) :
        /\ i + Len(kw) - 1 <= Len(u)
        /\ SubSeq(u, i, i + Len(kw) - 1) = kw

\* re.search(rf"\b{kw}\b", u)
re_search(kw, u) == \E i \in 1..Len(u) : WordAt(u, kw, i)

\* str(n) for a natural number
DigitChar == <<"0", "1", "2", "3", "4", "5", "6", "7", "8", "9">>

RECURSIVE IntToChars(_)
IntToChars(n) ==
    IF n < 10 THEN <<DigitChar[n + 1]>>
    ELSE IntToChars(n \div 10) \o <<DigitChar[(n % 10) + 1]>>

-----------------------------------------------------------------------------
(* Keywords *)

KW_INSERT ==
    <<"I","N","S","E","R","T">>
KW_UPDATE ==
    <<"U","P","D","A","T","E">>
KW_DELETE ==
    <<"D","E","L","E","T","E">>
KW_DROP ==
    <<"D","R","O","P">>
KW_TRUNCATE ==
    <<"T","R","U","N","C","A","T","E">>
KW_ALTER ==
    <<"A","L","T","E","R">>
KW_CREATE ==
    <<"C","R","E","A","T","E">>
KW_EXEC ==
    <<"E","X","E","C">>
KW_EXECUTE ==
    <<"E","X","E","C","U","T","E">>
KW_GRANT ==
    <<"G","R","A","N","T">>
KW_REVOKE ==
    <<"R","E","V","O","K","E">>
KW_SELECT ==
    <<"S","E","L","E","C","T">>
KW_LIMIT ==
    <<"L","I","M","I","T">>
KW_WITH ==
    <<"W","I","T","H">>
KW_AS ==
    <<"A","S">>
KW_UPSERT ==
    <<"U","P","S","E","R","T">>
KW_REPLACE ==
    <<"R","E","P","L","A","C","E">>
KW_MERGE ==
    <<"M","E","R","G","E">>
UNKNOWN ==
    <<"U","N","K","N","O","W","N">>

BLOCKED_SQL_KEYWORDS ==
    {KW_INSERT, KW_UPDATE, KW_DELETE, KW_DROP, KW_TRUNCATE, KW_ALTER,
     KW_CREATE, KW_EXEC, KW_EXECUTE, KW_GRANT, KW_REVOKE}

MAX_ROW_LIMIT == 10000

\* the keywords sqlparse lexes as Keyword.DML and Keyword.DDL
DML == {KW_SELECT, KW_INSERT, KW_DELETE, KW_UPDATE, KW_UPSERT, KW_REPLACE, KW_MERGE}
DDL == {KW_DROP, KW_CREATE, KW_ALTER}

-----------------------------------------------------------------------------
(* sqlparse.parse(sql) and Statement.get_type(), as validate_sql uses them *)

RECURSIVE SkipWs(_, _)
SkipWs(s, i) ==
    IF i <= Len(s) /\ s[i] \in WhiteSpace THEN SkipWs(s, i + 1) ELSE i

\* last index of the run of word characters that starts at i (i - 1: none)
RECURSIVE WordEnd(_, _)
WordEnd(s, i) ==
    IF i > Len(s) \/ s[i] \notin WordChars THEN i - 1 ELSE WordEnd(s, i + 1)

\* index of the ")" closing a parenthesis opened before i (0: unclosed)
RECURSIVE CloseParen(_, _, _)
CloseParen(s, i, depth) ==
    IF i > Len(s) THEN 0
    ELSE IF s[i] = "(" THEN CloseParen(s, i + 1, depth + 1)
    ELSE IF s[i] = ")" THEN
        IF depth = 1 THEN i ELSE CloseParen(s, i + 1, depth - 1)
    ELSE CloseParen(s, i + 1, depth)

\* the statements sqlparse splits sql into; sql holds no ";" when this is called
parse(sql) == IF sql = <<>> THEN <<>> ELSE <<sql>>

\* get_type() after a leading WITH: an identifier "name AS ( ... )" and then
\* the DML keyword of the main statement
cte_type(s, j) ==
    LET a  == SkipWs(s, j)
        ae == WordEnd(s, a)
        b  == SkipWs(s, ae + 1)
        be == WordEnd(s, b)
        c  == SkipWs(s, be + 1)
        ce == IF c <= Len(s) /\ s[c] = "(" THEN CloseParen(s, c + 1, 1) ELSE 0
        d  == SkipWs(s, ce + 1)
        de == WordEnd(s, d)
        w  == Upper(SubSeq(s, d, de))
    IN  IF /\ ae >= a
           /\ Upper(SubSeq(s, b, be)) = KW_AS
           /\ ce > 0
           /\ de >= d
           /\ w \in DML
        THEN w ELSE UNKNOWN

get_type_contains_select(s) ==
    IF re_search(KW_SELECT, Upper(s)) THEN KW_SELECT ELSE UNKNOWN

\* Statement.get_type(): the first token that is not whitespace decides
get_type(s) ==
    LET i == SkipWs(s, 1)
        e == WordEnd(s, i)
        w == Upper(SubSeq(s, i, e))
    IN  IF e < i THEN UNKNOWN
        ELSE IF w \in DML \cup DDL THEN w
        ELSE IF w = KW_WITH THEN cte_type(s, e + 1)
        ELSE UNKNOWN

-----------------------------------------------------------------------------
(* validate_sql *)

Ok(sql) == [ok |-> TRUE, sql |-> sql, err |-> "", kw |-> <<>>]
Fail(msg, kw) == [ok |-> FALSE, sql |-> <<>>, err |-> msg, kw |-> kw]
NoResult == [ok |-> FALSE, sql |-> <<>>, err |-> "not run", kw |-> <<>>]

ErrMulti == "Multi-statement SQL is not allowed."
ErrParse == "Could not parse the generated SQL."
ErrSelect == "Only SELECT queries are allowed."
ErrBlocked == "Blocked keyword detected: "

rstrip_semi_one(s) ==
    IF s # <<>> /\ s[Len(s)] = ";" THEN SubSeq(s, 1, Len(s) - 1) ELSE s

trim_remove_semis(sql) == SelectSeq(strip(sql), LAMBDA c : c # ";")

trim_one(sql) == rstrip_semi_one(strip(sql))

\* sql.strip().rstrip(";")
trim(sql) == rstrip_semi(strip(sql))

\* ";" in sql
is_multi(sql) == Contains(sql, ";")

RECURSIVE Unquoted(_, _)
\* s with the contents of its single-quoted literals taken out; inside tells
\* whether s starts within a literal
Unquoted(s, inside) ==
    IF s = <<>> THEN <<>>
    ELSE IF Head(s) = "'" THEN <<"'">> \o Unquoted(Tail(s), ~inside)
    ELSE (IF inside THEN <<>> ELSE <<Head(s)>>) \o Unquoted(Tail(s), inside)

\* a scan that skips quoted literals
blocked_hits_outside_literals(upper) ==
    {kw \in BLOCKED_SQL_KEYWORDS : re_search(kw, Unquoted(upper, FALSE))}

blocked_hits_substring(upper) ==
    {kw \in BLOCKED_SQL_KEYWORDS : re_search_nobound(kw, upper)}

blocked_hits_any(upper) ==
    IF \E kw \in BLOCKED_SQL_KEYWORDS : re_search(kw, upper)
    THEN BLOCKED_SQL_KEYWORDS ELSE {}

\* the keywords kw of the blocklist for which re.search(rf"\b{kw}\b", upper) matches
blocked_hits(upper) ==
    {kw \in BLOCKED_SQL_KEYWORDS : re_search(kw, upper)}

has_limit_never(upper) == FALSE

\* re.search(r"\bLIMIT\b", upper)
has_limit(upper) == re_search(KW_LIMIT, upper)

\* f"{sql} LIMIT {MAX_ROW_LIMIT}"
with_cap(sql) == sql \o <<" ", "L", "I", "M", "I", "T", " ">> \o IntToChars(MAX_ROW_LIMIT)

\* The outcomes of validate_sql(sql0).  BLOCKED_SQL_KEYWORDS is a Python set of
\* strings, whose iteration order changes from process to process: when several
\* blocked keywords match, any of them may be the one the ValueError names.
validate_sql(sql0) ==
    LET sql == trim(sql0)
    IN  IF is_multi(sql) THEN {Fail(ErrMulti, <<>>)}
        ELSE IF parse(sql) = <<>> THEN {Fail(ErrParse, <<>>)}
        ELSE IF get_type(parse(sql)[1]) # KW_SELECT THEN {Fail(ErrSelect, <<>>)}
        ELSE LET upper == Upper(sql)
                 hits  == blocked_hits(upper)
             IN  IF hits # {} THEN {Fail(ErrBlocked, kw) : kw \in hits}
                 ELSE IF ~has_limit(upper) THEN {Ok(with_cap(sql))}
                 ELSE {Ok(sql)}

-----------------------------------------------------------------------------
(* ChatResponse and the values it carries *)

\* Python's None, for the optional strings; every string-like value is a
\* sequence of strings
None == <<"None">>

\* bool(x) of an optional string
Truthy(x) == x # None /\ x # <<>>

\* a DataFrame of n rows; NoDf is dataframe=None
Df(n) == <<n>>
NoDf == <<>>

Exc(cls, msg) == [cls |-> cls, msg |-> msg]
NoExc == Exc("", <<>>)

\* str(exc)
str(e) == e.msg

ChatResponse(t, d, q, c, src, err) ==
    [text |-> t, dataframe |-> d, sql |-> q, conversation_id |-> c,
     source |-> src, error |-> err]

NoResponse == ChatResponse(<<>>, NoDf, None, None, "", None)

Ev(op, arg, n) == [op |-> op, arg |-> arg, n |-> n]

-----------------------------------------------------------------------------
(* Inputs of the validator *)

MaxAtoms == 3

SelA ==
    <<"s","e","l","e","c","t"," ","a"," ","f","r","o","m"," ","t">>
SelLim ==
    <<"S","E","L","E","C","T"," ","a"," ","F","R","O","M"," ","t"," ","L","I","M","I","T"," ","5">>
SelCreated ==
    <<"s","e","l","e","c","t"," ","c","r","e","a","t","e","d","_","a","t"," ","f","r","o","m"," ","t">>
Semi ==
    <<";">>
Sp ==
    <<" ">>
DropT ==
    <<" ","D","R","O","P"," ","T","A","B","L","E"," ","t">>
Upd ==
    <<" ","u","p","d","a","t","e"," ","t"," ","s","e","t"," ","x","=","1">>
LitLimit ==
    <<" ","w","h","e","r","e"," ","n"," ","="," ","'","l","i","m","i","t","'">>
Cte ==
    <<"W","I","T","H"," ","c"," ","A","S"," ","(","s","e","l","e","c","t"," ","1",")"," ">>
Glue ==
    <<"x">>
MixDrop ==
    <<"D","r","O","p">>
ScnMulti ==
    <<"S","E","L","E","C","T"," ","*"," ","F","R","O","M"," ","t",";"," ","D","R","O","P"," ","T","A","B","L","E"," ","t">>
ScnUpdate ==
    <<"u","p","d","a","t","e"," ","t"," ","s","e","t"," ","x","=","1">>
ScnCap ==
    <<"s","e","l","e","c","t"," ","a"," ","f","r","o","m"," ","t">>
ScnSemiSemi ==
    <<"S","E","L","E","C","T"," ","1",";",";">>
ScnLitDrop ==
    <<"S","E","L","E","C","T"," ","a"," ","F","R","O","M"," ","t"," ","W","H","E","R","E"," ","n","o","t","e"," ","="," ","'","D","R","O","P","'">>
ScnLitDelete ==
    <<"s","e","l","e","c","t"," ","a"," ","f","r","o","m"," ","t"," ","w","h","e","r","e"," ","n","o","t","e"," ","="," ","'","p","l","e","a","s","e"," ","d","e","l","e","t","e","'"," ","l","i","m","i","t"," ","5">>

Atoms ==
    {SelA, SelLim, SelCreated, Semi, Sp, DropT, Upd, LitLimit, Cte, Glue, MixDrop}

\* every concatenation of at most n atoms
RECURSIVE Strings(_)
Strings(n) ==
    IF n = 0 THEN {<<>>}
    ELSE LET prev == Strings(n - 1)
         IN  prev \cup {p \o a : p \in prev, a \in Atoms}

\* the inputs named by the specification's scenarios
Scenarios == {ScnMulti, ScnUpdate, ScnCap, ScnSemiSemi, ScnLitDrop, ScnLitDelete}

Candidates == Strings(MaxAtoms) \cup Scenarios

-----------------------------------------------------------------------------
(* What the two tiers, the executor and the caller can hand to chat_with_data *)

Questions == {<<"which machine fails most?">>, <<"show engines">>}

\* a conversation id the caller kept from an earlier turn, and the one a
\* start-conversation reply carries
KeptConv == <<"conv-kept">>
IssuedConv == <<"conv-issued">>

GenieText == <<"Machine type L fails most often.">>

\* the query attachment of a COMPLETED message
GenieQueries == {None, SelA, SelLim, ScnUpdate}

SENTINEL ==
    <<"U","N","A","B","L","E","_","T","O","_","A","N","S","W","E","R">>
SentinelOutput ==
    <<"U","N","A","B","L","E","_","T","O","_","A","N","S","W","E","R",":"," ","n","o"," ","m","a","t","c","h","i","n","g"," ","t","a","b","l","e">>

\* "  UNABLE_TO_ANSWER:  column: rpm missing "
SentinelPadded ==
    <<" "," ","U","N","A","B","L","E","_","T","O","_","A","N","S","W","E","R",":"," "," ","c","o","l","u","m","n",":"," ","r","p","m"," ","m","i","s","s","i","n","g"," ">>

\* what the tier-2 agent may print
AgentOutputs ==
    {SelA, Sp \o SelLim \o Semi, SelA \o DropT, ScnUpdate, ScnMulti,
     SentinelOutput, SentinelPadded}

InsightText == <<"- Type L machines fail most.">>

\* len(df) of the DataFrame a query returns
RowCounts == {0, 2}

ConnectionError == Exc("ConnectionError", <<"tier-1 endpoint unreachable">>)
HTTPError == Exc("HTTPError", <<"500 Server Error">>)
KeyError == Exc("KeyError", <<"'message_id'">>)
AttributeError == Exc("AttributeError", <<"'list' object has no attribute 'get'">>)
GenieFailed == Exc("RuntimeError", <<"Genie FAILED: ", "unknown">>)
GenieUnable == Exc("RuntimeError", <<"Genie could not answer this question.">>)
GenieTimeout == Exc("TimeoutError", <<"Genie timed out.">>)
AgentError == Exc("ClientError", <<"model invocation failed">>)
\* an exception raised without a message: str(exc) is ""
AgentTimeout == Exc("TimeoutError", <<>>)
DatabaseError == Exc("DatabaseError", <<"query failed">>)
ValueError(r) == Exc("ValueError", <<r.err>> \o r.kw)

\* the subclasses of Exception the calls raise
ExceptionClasses ==
    {"ConnectionError", "HTTPError", "KeyError", "AttributeError", "RuntimeError",
     "TimeoutError", "ClientError", "DatabaseError", "ValueError",
     "PermissionError", "OSError"}

SubmitErrors == {ConnectionError, HTTPError, KeyError}
FetchErrors == {ConnectionError, AttributeError}
PendingStatuses == {"EXECUTING_QUERY", "None"}
GenerateErrors == {AgentError, AgentTimeout}

-----------------------------------------------------------------------------
(* chat_with_data *)

INITIAL_WAIT == 1
BACKOFF_CAP == 5
MAX_WAIT == 60

Min(a, b) == IF a <= b THEN a ELSE b

\* s.startswith(prefix)
startswith(s, prefix) ==
    Len(prefix) <= Len(s) /\ SubSeq(s, 1, Len(prefix)) = prefix

DefaultGenieText == <<"Here are your results.">>
Apology == <<"I was unable to answer your question. Please try rephrasing it.">>
CouldNotFind == <<"I couldn't find data to answer that. ">>

\* f"Found {len(df):,} row(s)."
count_message(n) == <<"Found ">> \o IntToChars(n) \o <<" row(s).">>

\* the sql of _mock_response
MockSql ==
    <<"SELECT failure_mode, COUNT(*) AS count FROM main.predictive_maintenance.cnc_machine_data GROUP BY 1 LIMIT 10">>

\* a mock response that leaves out the question
mock_response_fixed(q) ==
    ChatResponse(<<"[MOCK] Simulated response", " ...">>,
                 Df(5),
                 MockSql,
                 <<"mock-conv-001">>, "mock", None)

mock_response(q) ==
    ChatResponse(<<"[MOCK] Simulated response for: '">> \o q \o <<"' ...">>,
                 Df(5),
                 MockSql,
                 <<"mock-conv-001">>, "mock", None)

\* the ChatResponse _poll_genie builds on COMPLETED
genie_response(t, d, q, c) ==
    ChatResponse(IF t # <<>> THEN t ELSE DefaultGenieText, d, q, c, "genie", None)

bedrock_response(t, d, q) == ChatResponse(t, d, q, None, "bedrock", None)

\* a failure response that shows the error to the user
error_response_leaky(e) == ChatResponse(str(e), NoDf, None, None, "error", str(e))

error_response(e) == ChatResponse(Apology, NoDf, None, None, "error", str(e))

catches_runtime_error(e) == e.cls = "RuntimeError"

\* "except Exception" of the two try blocks of chat_with_data
catches(e) == e.cls \in ExceptionClasses

-----------------------------------------------------------------------------
(* The chat handler: data *)

MaxRequests == 1

\* the number of consecutive turns of one browser session that SessionSpec follows
MaxTurns == 2

MAX_MESSAGE_LEN == 2000
QUERY_TEXT_CAP == 500
ERROR_CAP == 200

\* get_user_from_request returned None
NoUser == [email |-> <<>>, role |-> <<>>]
Analyst == [email |-> <<"ana@example.com">>, role |-> <<"analyst">>]
Users == {NoUser, Analyst}

\* what the user may submit: a question as it is and with blanks around,
\* nothing, blanks only, and MAX_MESSAGE_LEN + 1 characters
Blank == <<" ", "\n">>
LongMessage == [i \in 1..(MAX_MESSAGE_LEN + 1) |-> "x"]
Messages ==
    {<<"show engines">>, <<" ", "show engines", "\n">>, <<>>, Blank, LongMessage}

HandlerApology ==
    <<"Sorry, I could not answer that question. Please try rephrasing it.">>

\* s[:n]
Prefix(s, n) == SubSeq(s, 1, Min(Len(s), n))

\* str.capitalize() of a source tag
Capitalize(src) ==
    CASE src = "genie" -> "Genie"
      [] src = "bedrock" -> "Bedrock"
      [] src = "mock" -> "Mock"
      [] src = "error" -> "Error"
      [] OTHER -> src

\* len(result.dataframe) if result.dataframe is not None else 0
row_count_of(d) == IF d # NoDf THEN d[1] ELSE 0

\* the reply shows the error of the response
visible_reply_leaky(r) == IF ~Truthy(r.error) THEN r.text ELSE r.error

\* reply = result.text if not result.error else "Sorry, ..."
visible_reply(r) == IF ~Truthy(r.error) THEN r.text ELSE HandlerApology

\* the row log_event writes; timestamp and session id are left out
audit_row(action_type, user_email, user_role, ai_source, source_tables, query_text, row_count, execution_time_ms, pii_accessed, error) ==
    [user_email |-> user_email,
     user_role |-> user_role,
     action_type |-> action_type,
     ai_source |-> ai_source,
     source_tables |-> source_tables,
     query_text |-> Prefix(query_text, QUERY_TEXT_CAP),
     row_count |-> row_count,
     execution_time_ms |-> execution_time_ms,
     pii_accessed |-> pii_accessed,
     error |-> Prefix(error, ERROR_CAP)]

\* respond's call of log_event: error is not passed and keeps its default ""
chat_event(user, msg, r) ==
    audit_row("CHAT",
              IF user # NoUser THEN user.email ELSE <<"unknown">>,
              IF user # NoUser THEN user.role ELSE <<"viewer">>,
              r.source,
              <<"(AI-generated query)">>,
              IF Truthy(r.sql) THEN r.sql ELSE msg,
              row_count_of(r.dataframe),
              0, FALSE, <<>>)

Hidden == [value |-> NoDf, visible |-> FALSE]

\* _ensure_log_file cannot create the directory or the file; the row cannot be
\* written
LogDirError == Exc("PermissionError", <<"[Errno 13] Permission denied: 'logs'">>)
LogWriteError == Exc("OSError", <<"[Errno 28] No space left on device">>)
AuditErrors == {LogDirError, LogWriteError}

\* a handler for nothing
log_event_catches_nothing(e) == FALSE

\* "except Exception" of log_event
log_event_catches(e) == e.cls \in ExceptionClasses

\* the handler's locals outside a request
HandlerLocalsBlank ==
    /\ message = <<>>
    /\ result = NoResponse
    /\ reply = <<>>
    /\ audit_outcome = "none"

\* chat_with_data called on its own, without the chat handler
HandlerAbsent ==
    /\ hpc = "absent"
    /\ request_user = NoUser
    /\ request_limit = 0
    /\ requests = 0
    /\ orchestrator_calls = 0
    /\ HandlerLocalsBlank
    /\ audit_calls = 0
    /\ audit_trail = <<>>
    /\ history = <<>>
    /\ msg_box = <<>>
    /\ conv_id = None
    /\ source_label = <<>>
    /\ results_table = Hidden

OrchestratorIdle ==
    /\ use_mock = FALSE
    /\ genie_configured = FALSE
    /\ question = <<>>
    /\ conv_in = None
    /\ pc = "idle"
    /\ conv = None
    /\ wait = 0
    /\ elapsed = 0
    /\ genie_text = <<>>
    /\ genie_sql = None
    /\ raw_sql = None
    /\ safe_sql = None
    /\ df = NoDf
    /\ exc = NoExc
    /\ t1_raised = NoExc
    /\ t2_raised = NoExc
    /\ response = NoResponse
    /\ log = <<>>

Init ==
    /\ use_mock \in BOOLEAN
    /\ genie_configured \in BOOLEAN
    /\ question \in Questions
    /\ conv_in \in {None, <<>>, KeptConv}
    /\ pc = "entry"
    /\ conv = None
    /\ wait = 0
    /\ elapsed = 0
    /\ genie_text = <<>>
    /\ genie_sql = None
    /\ raw_sql = None
    /\ safe_sql = None
    /\ df = NoDf
    /\ exc = NoExc
    /\ t1_raised = NoExc
    /\ t2_raised = NoExc
    /\ response = NoResponse
    /\ log = <<>>
    /\ candidate = <<>>
    /\ vpc = "start"
    /\ vres = NoResult
    /\ vres2 = NoResult
    /\ HandlerAbsent

\* if USE_MOCK: return _mock_response(question)
EnterMock ==
    /\ pc = "entry"
    /\ use_mock
    /\ response' = mock_response(question)
    /\ pc' = "returned"
    /\ UNCHANGED <<use_mock, genie_configured, question, conv_in, conv, wait,
                   elapsed, genie_text, genie_sql, raw_sql, safe_sql, df, exc, t1_raised, t2_raised, log>>
    /\ UNCHANGED <<vvars, hvars>>

\* if GENIE_SPACE_ID: try tier 1
EnterTier1 ==
    /\ pc = "entry"
    /\ ~use_mock
    /\ genie_configured
    /\ pc' = "t1_submit"
    /\ UNCHANGED <<use_mock, genie_configured, question, conv_in, conv, wait,
                   elapsed, genie_text, genie_sql, raw_sql, safe_sql, df, exc, t1_raised, t2_raised,
                   response, log>>
    /\ UNCHANGED <<vvars, hvars>>

\* tier 2 entered whether or not a Genie space is configured
EnterTier2Unconditional ==
    /\ pc = "entry"
    /\ ~use_mock
    /\ pc' = "t2_generate"
    /\ UNCHANGED <<use_mock, genie_configured, question, conv_in, conv, wait,
                   elapsed, genie_text, genie_sql, raw_sql, safe_sql, df, exc, t1_raised, t2_raised,
                   response, log>>
    /\ UNCHANGED <<vvars, hvars>>

\* GENIE_SPACE_ID empty: straight to tier 2
EnterTier2 ==
    /\ pc = "entry"
    /\ ~use_mock
    /\ ~genie_configured
    /\ pc' = "t2_generate"
    /\ UNCHANGED <<use_mock, genie_configured, question, conv_in, conv, wait,
                   elapsed, genie_text, genie_sql, raw_sql, safe_sql, df, exc, t1_raised, t2_raised,
                   response, log>>
    /\ UNCHANGED <<vvars, hvars>>

\* a new conversation every time
submit_call_start == "start"

\* which of _continue_genie and _start_genie chat_with_data calls
submit_call == IF Truthy(conv_in) THEN "continue" ELSE "start"

\* the POST of _start_genie / _continue_genie raises, or its reply lacks a key
T1SubmitRaises ==
    /\ pc = "t1_submit"
    /\ \E e \in SubmitErrors : exc' = e
    /\ log' = Append(log, Ev(submit_call, conv_in, 0))
    /\ pc' = "t1_except"
    /\ UNCHANGED <<use_mock, genie_configured, question, conv_in, conv, wait,
                   elapsed, genie_text, genie_sql, raw_sql, safe_sql, df, t1_raised, t2_raised, response>>
    /\ UNCHANGED <<vvars, hvars>>

\* the POST answers; _poll_genie starts with wait, elapsed = 1, 0
T1Submit ==
    /\ pc = "t1_submit"
    /\ log' = Append(log, Ev(submit_call, conv_in, 0))
    /\ conv' = IF Truthy(conv_in) THEN conv_in ELSE IssuedConv
    /\ wait' = INITIAL_WAIT
    /\ elapsed' = 0
    /\ pc' = "t1_poll"
    /\ UNCHANGED <<use_mock, genie_configured, question, conv_in, genie_text, genie_sql,
                   raw_sql, safe_sql, df, exc, t1_raised, t2_raised, response>>
    /\ UNCHANGED <<vvars, hvars>>

\* raises TimeoutError whatever the elapsed time is
T1TimeoutAnyTime ==
    /\ pc = "t1_poll"
    /\ exc' = GenieTimeout
    /\ pc' = "t1_except"
    /\ UNCHANGED <<use_mock, genie_configured, question, conv_in, conv, wait,
                   elapsed, genie_text, genie_sql, raw_sql, safe_sql, df, t1_raised, t2_raised,
                   response, log>>
    /\ UNCHANGED <<vvars, hvars>>

\* the while condition fails: raise TimeoutError
T1Timeout ==
    /\ pc = "t1_poll"
    /\ ~(elapsed < MAX_WAIT)
    /\ exc' = GenieTimeout
    /\ pc' = "t1_except"
    /\ UNCHANGED <<use_mock, genie_configured, question, conv_in, conv, wait,
                   elapsed, genie_text, genie_sql, raw_sql, safe_sql, df, t1_raised, t2_raised,
                   response, log>>
    /\ UNCHANGED <<vvars, hvars>>

\* the GET raises, or its reply is not the JSON object the loop reads
T1FetchRaises ==
    /\ pc = "t1_poll"
    /\ elapsed < MAX_WAIT
    /\ \E e \in FetchErrors : exc' = e
    /\ log' = Append(log, Ev("fetch", conv, 0))
    /\ pc' = "t1_except"
    /\ UNCHANGED <<use_mock, genie_configured, question, conv_in, conv, wait,
                   elapsed, genie_text, genie_sql, raw_sql, safe_sql, df, t1_raised, t2_raised, response>>
    /\ UNCHANGED <<vvars, hvars>>

\* status == "COMPLETED": read the attachments; without a query, return
T1FetchCompleted ==
    /\ pc = "t1_poll"
    /\ elapsed < MAX_WAIT
    /\ log' = Append(log, Ev("fetch", conv, 0))
    /\ \E t \in {<<>>, GenieText}, q \in GenieQueries :
        /\ genie_text' = t
        /\ genie_sql' = q
        /\ IF Truthy(q)
           THEN /\ pc' = "t1_materialize"
                /\ UNCHANGED response
           ELSE /\ pc' = "returned"
                /\ response' = genie_response(t, NoDf, q, conv)
    /\ UNCHANGED <<use_mock, genie_configured, question, conv_in, conv, wait,
                   elapsed, raw_sql, safe_sql, df, exc, t1_raised, t2_raised>>
    /\ UNCHANGED <<vvars, hvars>>

\* status == "FAILED"
T1FetchFailed ==
    /\ pc = "t1_poll"
    /\ elapsed < MAX_WAIT
    /\ log' = Append(log, Ev("fetch", conv, 0))
    /\ exc' = GenieFailed
    /\ pc' = "t1_except"
    /\ UNCHANGED <<use_mock, genie_configured, question, conv_in, conv, wait,
                   elapsed, genie_text, genie_sql, raw_sql, safe_sql, df, t1_raised, t2_raised, response>>
    /\ UNCHANGED <<vvars, hvars>>

\* status == "UNABLE_TO_ANSWER"
T1FetchUnable ==
    /\ pc = "t1_poll"
    /\ elapsed < MAX_WAIT
    /\ log' = Append(log, Ev("fetch", conv, 0))
    /\ exc' = GenieUnable
    /\ pc' = "t1_except"
    /\ UNCHANGED <<use_mock, genie_configured, question, conv_in, conv, wait,
                   elapsed, genie_text, genie_sql, raw_sql, safe_sql, df, t1_raised, t2_raised, response>>
    /\ UNCHANGED <<vvars, hvars>>

\* any other status: fall through to the sleep
T1FetchPending ==
    /\ pc = "t1_poll"
    /\ elapsed < MAX_WAIT
    /\ \E st \in PendingStatuses : log' = Append(log, Ev("fetch", conv, 0))
    /\ pc' = "t1_sleep"
    /\ UNCHANGED <<use_mock, genie_configured, question, conv_in, conv, wait,
                   elapsed, genie_text, genie_sql, raw_sql, safe_sql, df, exc, t1_raised, t2_raised,
                   response>>
    /\ UNCHANGED <<vvars, hvars>>

\* a poller without backoff: the wait stays at its first value
T1SleepFlat ==
    /\ pc = "t1_sleep"
    /\ log' = Append(log, Ev("sleep", <<>>, wait))
    /\ elapsed' = elapsed + wait
    /\ wait' = wait
    /\ pc' = "t1_poll"
    /\ UNCHANGED <<use_mock, genie_configured, question, conv_in, conv, genie_text,
                   genie_sql, raw_sql, safe_sql, df, exc, t1_raised, t2_raised, response>>
    /\ UNCHANGED <<vvars, hvars>>

\* a backoff that keeps doubling: wait = wait * 2
T1SleepUncapped ==
    /\ pc = "t1_sleep"
    /\ log' = Append(log, Ev("sleep", <<>>, wait))
    /\ elapsed' = elapsed + wait
    /\ wait' = wait * 2
    /\ pc' = "t1_poll"
    /\ UNCHANGED <<use_mock, genie_configured, question, conv_in, conv, genie_text,
                   genie_sql, raw_sql, safe_sql, df, exc, t1_raised, t2_raised, response>>
    /\ UNCHANGED <<vvars, hvars>>

\* time.sleep(wait); elapsed += wait; wait = min(wait * 2, 5)
T1Sleep ==
    /\ pc = "t1_sleep"
    /\ log' = Append(log, Ev("sleep", <<>>, wait))
    /\ elapsed' = elapsed + wait
    /\ wait' = Min(wait * 2, BACKOFF_CAP)
    /\ pc' = "t1_poll"
    /\ UNCHANGED <<use_mock, genie_configured, question, conv_in, conv, genie_text,
                   genie_sql, raw_sql, safe_sql, df, exc, t1_raised, t2_raised, response>>
    /\ UNCHANGED <<vvars, hvars>>

\* validate_sql(sql) raises inside the poller's try: logged, df stays None
T1ValidateFails ==
    /\ pc = "t1_materialize"
    /\ \E r \in validate_sql(genie_sql) : ~r.ok
    /\ log' = Append(log, Ev("validate", genie_sql, 0))
    /\ df' = NoDf
    /\ response' = genie_response(genie_text, NoDf, genie_sql, conv)
    /\ pc' = "returned"
    /\ UNCHANGED <<use_mock, genie_configured, question, conv_in, conv, wait,
                   elapsed, genie_text, genie_sql, raw_sql, safe_sql, exc, t1_raised, t2_raised>>
    /\ UNCHANGED <<vvars, hvars>>

\* a poller whose try does not cover the executor: the failure leaves _poll_genie
T1ExecuteRaisesEscapes ==
    /\ pc = "t1_materialize"
    /\ \E r \in validate_sql(genie_sql) :
        /\ r.ok
        /\ log' = log \o <<Ev("validate", genie_sql, 0), Ev("execute", r.sql, 0)>>
    /\ df' = NoDf
    /\ exc' = DatabaseError
    /\ pc' = "t1_except"
    /\ UNCHANGED <<use_mock, genie_configured, question, conv_in, conv, wait,
                   elapsed, genie_text, genie_sql, raw_sql, safe_sql, t1_raised, t2_raised, response>>
    /\ UNCHANGED <<vvars, hvars>>

\* db_service._sql_query(validate_sql(sql)) raises inside the poller's try
T1ExecuteRaises ==
    /\ pc = "t1_materialize"
    /\ \E r \in validate_sql(genie_sql) :
        /\ r.ok
        /\ log' = log \o <<Ev("validate", genie_sql, 0), Ev("execute", r.sql, 0)>>
    /\ df' = NoDf
    /\ response' = genie_response(genie_text, NoDf, genie_sql, conv)
    /\ pc' = "returned"
    /\ UNCHANGED <<use_mock, genie_configured, question, conv_in, conv, wait,
                   elapsed, genie_text, genie_sql, raw_sql, safe_sql, exc, t1_raised, t2_raised>>
    /\ UNCHANGED <<vvars, hvars>>

\* df = db_service._sql_query(validate_sql(sql))
T1Execute ==
    /\ pc = "t1_materialize"
    /\ \E r \in validate_sql(genie_sql), n \in RowCounts :
        /\ r.ok
        /\ log' = log \o <<Ev("validate", genie_sql, 0), Ev("execute", r.sql, 0)>>
        /\ df' = Df(n)
        /\ response' = genie_response(genie_text, Df(n), genie_sql, conv)
    /\ pc' = "returned"
    /\ UNCHANGED <<use_mock, genie_configured, question, conv_in, conv, wait,
                   elapsed, genie_text, genie_sql, raw_sql, safe_sql, exc, t1_raised, t2_raised>>
    /\ UNCHANGED <<vvars, hvars>>

\* except Exception as exc: warn and fall through to tier 2
T1Except ==
    /\ pc = "t1_except"
    /\ t1_raised' = exc
    /\ IF catches(exc)
       THEN /\ pc' = "t2_generate"
            /\ exc' = NoExc
       ELSE /\ pc' = "raised"
            /\ UNCHANGED exc
    /\ UNCHANGED <<use_mock, genie_configured, question, conv_in, conv, wait,
                   elapsed, genie_text, genie_sql, raw_sql, safe_sql, df, t2_raised, response, log>>
    /\ UNCHANGED <<vvars, hvars>>

\* _get_agent() or the agent call raises
T2GenerateRaises ==
    /\ pc = "t2_generate"
    /\ log' = Append(log, Ev("generate", question, 0))
    /\ \E e \in GenerateErrors : exc' = e
    /\ pc' = "t2_except"
    /\ UNCHANGED <<use_mock, genie_configured, question, conv_in, conv, wait,
                   elapsed, genie_text, genie_sql, raw_sql, safe_sql, df, t1_raised, t2_raised, response>>
    /\ UNCHANGED <<vvars, hvars>>

\* s.split(":")[-1]
after_last_colon(s) ==
    LET colons == {i \in 1..Len(s) : s[i] = ":"}
    IN  IF colons = {} THEN s
        ELSE SubSeq(s, (CHOOSE i \in colons : \A k \in colons : i >= k) + 1, Len(s))

\* s.split(":", 1)[-1]
after_colon(s) ==
    LET colons == {i \in 1..Len(s) : s[i] = ":"}
    IN  IF colons = {} THEN s
        ELSE SubSeq(s, (CHOOSE i \in colons : \A k \in colons : i <= k) + 1, Len(s))

\* raw_sql = str(agent(prompt)).strip(); raw_sql.startswith("UNABLE_TO_ANSWER")
T2Sentinel ==
    /\ pc = "t2_generate"
    /\ \E out \in AgentOutputs : raw_sql' = strip(out)
    /\ startswith(raw_sql', SENTINEL)
    /\ response' = bedrock_response(CouldNotFind \o strip(after_colon(raw_sql')),
                                    NoDf, None)
    /\ log' = Append(log, Ev("generate", question, 0))
    /\ pc' = "returned"
    /\ UNCHANGED <<use_mock, genie_configured, question, conv_in, conv, wait,
                   elapsed, genie_text, genie_sql, safe_sql, df, exc, t1_raised, t2_raised>>
    /\ UNCHANGED <<vvars, hvars>>

\* safe_sql = validate_sql(raw_sql) raises ValueError
T2ValidateFails ==
    /\ pc = "t2_generate"
    /\ \E out \in AgentOutputs : raw_sql' = strip(out)
    /\ ~startswith(raw_sql', SENTINEL)
    /\ \E r \in validate_sql(raw_sql') :
        /\ ~r.ok
        /\ exc' = ValueError(r)
    /\ log' = log \o <<Ev("generate", question, 0), Ev("validate", raw_sql', 0)>>
    /\ pc' = "t2_except"
    /\ UNCHANGED <<use_mock, genie_configured, question, conv_in, conv, wait,
                   elapsed, genie_text, genie_sql, safe_sql, df, t1_raised, t2_raised, response>>
    /\ UNCHANGED <<vvars, hvars>>

\* safe_sql = validate_sql(raw_sql)
T2Validated ==
    /\ pc = "t2_generate"
    /\ \E out \in AgentOutputs : raw_sql' = strip(out)
    /\ ~startswith(raw_sql', SENTINEL)
    /\ \E r \in validate_sql(raw_sql') :
        /\ r.ok
        /\ safe_sql' = r.sql
    /\ log' = log \o <<Ev("generate", question, 0), Ev("validate", raw_sql', 0)>>
    /\ pc' = "t2_execute"
    /\ UNCHANGED <<use_mock, genie_configured, question, conv_in, conv, wait,
                   elapsed, genie_text, genie_sql, df, exc, t1_raised, t2_raised, response>>
    /\ UNCHANGED <<vvars, hvars>>

\* df = db_service._sql_query(safe_sql) raises
T2ExecuteRaises ==
    /\ pc = "t2_execute"
    /\ log' = Append(log, Ev("execute", safe_sql, 0))
    /\ exc' = DatabaseError
    /\ pc' = "t2_except"
    /\ UNCHANGED <<use_mock, genie_configured, question, conv_in, conv, wait,
                   elapsed, genie_text, genie_sql, raw_sql, safe_sql, df, t1_raised, t2_raised, response>>
    /\ UNCHANGED <<vvars, hvars>>

\* the executor is handed the agent's output instead of the validated statement
T2ExecuteUnvalidated ==
    /\ pc = "t2_execute"
    /\ log' = Append(log, Ev("execute", raw_sql, 0))
    /\ \E n \in RowCounts :
        /\ df' = Df(n)
        /\ IF n > 0
           THEN /\ pc' = "t2_summary"
                /\ UNCHANGED response
           ELSE /\ pc' = "returned"
                /\ response' = bedrock_response(count_message(n), Df(n), safe_sql)
    /\ UNCHANGED <<use_mock, genie_configured, question, conv_in, conv, wait,
                   elapsed, genie_text, genie_sql, raw_sql, safe_sql, exc, t1_raised, t2_raised>>
    /\ UNCHANGED <<vvars, hvars>>

\* df = db_service._sql_query(safe_sql); without rows the count message is the text
T2Execute ==
    /\ pc = "t2_execute"
    /\ log' = Append(log, Ev("execute", safe_sql, 0))
    /\ \E n \in RowCounts :
        /\ df' = Df(n)
        /\ IF n > 0
           THEN /\ pc' = "t2_summary"
                /\ UNCHANGED response
           ELSE /\ pc' = "returned"
                /\ response' = bedrock_response(count_message(n), Df(n), safe_sql)
    /\ UNCHANGED <<use_mock, genie_configured, question, conv_in, conv, wait,
                   elapsed, genie_text, genie_sql, raw_sql, safe_sql, exc, t1_raised, t2_raised>>
    /\ UNCHANGED <<vvars, hvars>>

\* a summary step without the try: a failing _generate_insight fails tier 2
T2SummaryUnguarded ==
    /\ pc = "t2_summary"
    /\ log' = Append(log, Ev("summarize", question, 0))
    /\ \E ok \in BOOLEAN :
        IF ok
        THEN /\ response' = bedrock_response(InsightText, df, safe_sql)
             /\ pc' = "returned"
             /\ UNCHANGED exc
        ELSE /\ exc' = AgentError
             /\ pc' = "t2_except"
             /\ UNCHANGED response
    /\ UNCHANGED <<use_mock, genie_configured, question, conv_in, conv, wait,
                   elapsed, genie_text, genie_sql, raw_sql, safe_sql, df, t1_raised, t2_raised>>
    /\ UNCHANGED <<vvars, hvars>>

\* summary = _generate_insight(...), or the count message when it raises
T2Summary ==
    /\ pc = "t2_summary"
    /\ log' = Append(log, Ev("summarize", question, 0))
    /\ \E ok \in BOOLEAN :
        response' = bedrock_response(IF ok THEN InsightText ELSE count_message(df[1]),
                                     df, safe_sql)
    /\ pc' = "returned"
    /\ UNCHANGED <<use_mock, genie_configured, question, conv_in, conv, wait,
                   elapsed, genie_text, genie_sql, raw_sql, safe_sql, df, exc, t1_raised, t2_raised>>
    /\ UNCHANGED <<vvars, hvars>>

\* a tier-2 handler that logs and re-raises
T2ExceptReraises ==
    /\ pc = "t2_except"
    /\ t2_raised' = exc
    /\ pc' = "raised"
    /\ UNCHANGED <<use_mock, genie_configured, question, conv_in, conv, wait,
                   elapsed, genie_text, genie_sql, raw_sql, safe_sql, df, exc, t1_raised,
                   response, log>>
    /\ UNCHANGED <<vvars, hvars>>

\* except Exception as exc: the apology, with error=str(exc)
T2Except ==
    /\ pc = "t2_except"
    /\ t2_raised' = exc
    /\ IF catches(exc)
       THEN /\ pc' = "returned"
            /\ response' = error_response(exc)
            /\ exc' = NoExc
       ELSE /\ pc' = "raised"
            /\ UNCHANGED <<response, exc>>
    /\ UNCHANGED <<use_mock, genie_configured, question, conv_in, conv, wait,
                   elapsed, genie_text, genie_sql, raw_sql, safe_sql, df, t1_raised, log>>
    /\ UNCHANGED <<vvars, hvars>>

Next ==
    \/ EnterMock
    \/ EnterTier1
    \/ EnterTier2
    \/ T1SubmitRaises
    \/ T1Submit
    \/ T1Timeout
    \/ T1FetchRaises
    \/ T1FetchCompleted
    \/ T1FetchFailed
    \/ T1FetchUnable
    \/ T1FetchPending
    \/ T1Sleep
    \/ T1ValidateFails
    \/ T1ExecuteRaises
    \/ T1Execute
    \/ T1Except
    \/ T2GenerateRaises
    \/ T2Sentinel
    \/ T2ValidateFails
    \/ T2Validated
    \/ T2ExecuteRaises
    \/ T2Execute
    \/ T2Summary
    \/ T2Except

Spec == Init /\ [][Next]_vars

\* the steps of chat_with_data that do not run validate_sql
CallSteps ==
    \/ EnterMock
    \/ EnterTier1
    \/ EnterTier2
    \/ T1SubmitRaises
    \/ T1Submit
    \/ T1Timeout
    \/ T1FetchRaises
    \/ T1FetchCompleted
    \/ T1FetchFailed
    \/ T1FetchUnable
    \/ T1FetchPending
    \/ T1Sleep
    \/ T1Except
    \/ T2GenerateRaises
    \/ T2ExecuteRaises
    \/ T2Execute
    \/ T2Summary
    \/ T2Except

\* the poller's try around validate_sql and the executor is left, one way or the other
Materialized == pc = "t1_materialize" /\ pc' = "returned"

\* chat_with_data runs on one thread and every outbound call returns or raises
\* (the HTTP calls carry a timeout): a step that can be taken is taken. Tier 2
\* can always take the step where the agent call raises, so the steps that
\* validate the agent's output need no fairness of their own; the steps that
\* validate a tier-1 query are covered by Materialized.
FairSpec == Init /\ [][Next]_vars /\ WF_vars(CallSteps) /\ WF_pc(Materialized)

-----------------------------------------------------------------------------
(* The chat handler: respond, log_event and Clear Chat *)

\* chat_with_data's locals outside an invocation
OrchestratorLocalsBlank ==
    /\ question = <<>>
    /\ conv_in = None
    /\ pc = "idle"
    /\ conv = None
    /\ wait = 0
    /\ elapsed = 0
    /\ genie_text = <<>>
    /\ genie_sql = None
    /\ raw_sql = None
    /\ safe_sql = None
    /\ df = NoDf
    /\ exc = NoExc
    /\ t1_raised = NoExc
    /\ t2_raised = NoExc
    /\ response = NoResponse
    /\ log = <<>>

ChatInit ==
    /\ use_mock \in BOOLEAN
    /\ genie_configured \in BOOLEAN
    /\ OrchestratorLocalsBlank
    /\ candidate = <<>>
    /\ vpc = "start"
    /\ vres = NoResult
    /\ vres2 = NoResult
    /\ hpc = "idle"
    /\ request_user \in Users
    /\ request_limit = MaxRequests
    /\ requests = 0
    /\ orchestrator_calls = 0
    /\ HandlerLocalsBlank
    /\ audit_calls = 0
    /\ audit_trail = <<>>
    /\ history = <<>>
    /\ msg_box = <<>>
    /\ conv_id = None
    /\ source_label = <<>>
    /\ results_table = Hidden

\* if not message or len(message) > 2000
rejects(msg) == msg = <<>> \/ Len(msg) > MAX_MESSAGE_LEN

\* respond with an empty or over-long message: return at line 70
RespondRejects ==
    /\ hpc = "idle"
    /\ requests < request_limit
    /\ \E m \in Messages :
        /\ rejects(strip(m))
        /\ msg_box' = strip(m)
    /\ source_label' = <<>>
    /\ results_table' = [results_table EXCEPT !.visible = FALSE]
    /\ requests' = requests + 1
    /\ UNCHANGED <<hpc, request_user, request_limit, orchestrator_calls, message, result, reply, audit_outcome,
                   audit_calls, audit_trail, history, conv_id>>
    /\ UNCHANGED <<vvars, ovars>>

\* respond up to the call of chat_with_data(message, conv_id, schema_context)
RespondCalls ==
    /\ hpc = "idle"
    /\ requests < request_limit
    /\ \E m \in Messages :
        /\ ~rejects(strip(m))
        /\ message' = strip(m)
    /\ question' = message'
    /\ conv_in' = conv_id
    /\ pc' = "entry"
    /\ requests' = requests + 1
    /\ orchestrator_calls' = orchestrator_calls + 1
    /\ hpc' = "calling"
    /\ UNCHANGED <<request_user, request_limit, result, reply, audit_outcome, audit_calls,
                   audit_trail, history, msg_box, conv_id, source_label, results_table>>
    /\ UNCHANGED <<use_mock, genie_configured, conv, wait, elapsed, genie_text,
                   genie_sql, raw_sql, safe_sql, df, exc, t1_raised, t2_raised,
                   response, log>>
    /\ UNCHANGED vvars

\* chat_with_data has returned to respond: its locals are gone
Returns ==
    /\ question' = <<>>
    /\ conv_in' = None
    /\ pc' = "idle"
    /\ conv' = None
    /\ wait' = 0
    /\ elapsed' = 0
    /\ genie_text' = <<>>
    /\ genie_sql' = None
    /\ raw_sql' = None
    /\ safe_sql' = None
    /\ df' = NoDf
    /\ exc' = NoExc
    /\ t1_raised' = NoExc
    /\ t2_raised' = NoExc
    /\ response' = NoResponse
    /\ log' = <<>>
    /\ UNCHANGED <<use_mock, genie_configured>>

\* the request is recorded twice
LogEventTwice ==
    /\ hpc = "calling"
    /\ pc = "returned"
    /\ result' = response
    /\ reply' = visible_reply(response)
    /\ audit_calls' = audit_calls + 2
    /\ audit_trail' = audit_trail \o <<chat_event(request_user, message, response),
                                      chat_event(request_user, message, response)>>
    /\ audit_outcome' = "written"
    /\ hpc' = "logged"
    /\ Returns
    /\ UNCHANGED <<request_user, request_limit, requests, orchestrator_calls, message, history, msg_box, conv_id,
                   source_label, results_table>>
    /\ UNCHANGED vvars

\* result = chat_with_data(...), the reply, and log_event appends its row
LogEvent ==
    /\ hpc = "calling"
    /\ pc = "returned"
    /\ result' = response
    /\ reply' = visible_reply(response)
    /\ audit_calls' = audit_calls + 1
    /\ audit_trail' = Append(audit_trail, chat_event(request_user, message, response))
    /\ audit_outcome' = "written"
    /\ hpc' = "logged"
    /\ Returns
    /\ UNCHANGED <<request_user, request_limit, requests, orchestrator_calls, message, history, msg_box, conv_id,
                   source_label, results_table>>
    /\ UNCHANGED vvars

\* result = chat_with_data(...), the reply, and log_event cannot create or write
\* the file: except Exception logs the failure and log_event returns
LogEventFails ==
    /\ hpc = "calling"
    /\ pc = "returned"
    /\ result' = response
    /\ reply' = visible_reply(response)
    /\ audit_calls' = audit_calls + 1
    /\ \E e \in AuditErrors :
        IF log_event_catches(e)
        THEN /\ audit_outcome' = "failed"
             /\ hpc' = "logged"
        ELSE /\ audit_outcome' = "raised"
             /\ hpc' = "raised"
    /\ Returns
    /\ UNCHANGED <<request_user, request_limit, requests, orchestrator_calls, message, audit_trail, history, msg_box,
                   conv_id, source_label, results_table>>
    /\ UNCHANGED vvars

\* new_history, source_md, table_update and the return of respond
RespondReturns ==
    /\ hpc = "logged"
    /\ history' = history \o <<[role |-> "user", content |-> message],
                                [role |-> "assistant", content |-> reply]>>
    /\ msg_box' = <<>>
    /\ conv_id' = result.conversation_id
    /\ source_label' = <<"_Answered by: **", Capitalize(result.source), "**_">>
    /\ results_table' = IF result.dataframe # NoDf /\ result.dataframe[1] > 0
                        THEN [value |-> result.dataframe, visible |-> TRUE]
                        ELSE Hidden
    /\ hpc' = "idle"
    /\ message' = <<>>
    /\ result' = NoResponse
    /\ reply' = <<>>
    /\ audit_outcome' = "none"
    /\ UNCHANGED <<request_user, request_limit, requests, orchestrator_calls, audit_calls, audit_trail>>
    /\ UNCHANGED <<vvars, ovars>>

\* Clear Chat
ClearChat ==
    /\ hpc = "idle"
    /\ history' = <<>>
    /\ msg_box' = <<>>
    /\ conv_id' = None
    /\ source_label' = <<>>
    /\ results_table' = Hidden
    /\ UNCHANGED <<hpc, request_user, request_limit, requests, orchestrator_calls, message, result, reply,
                   audit_outcome, audit_calls, audit_trail>>
    /\ UNCHANGED <<vvars, ovars>>

ChatNext ==
    \/ RespondRejects
    \/ RespondCalls
    \/ LogEvent
    \/ LogEventFails
    \/ RespondReturns
    \/ ClearChat
    \/ Next

ChatSpec == ChatInit /\ [][ChatNext]_vars

\* One browser session followed over several turns: conv_id_state starts at
\* gr.State(None) and is carried from each respond call to the next.
SessionInit ==
    /\ use_mock \in BOOLEAN
    /\ genie_configured \in BOOLEAN
    /\ OrchestratorLocalsBlank
    /\ candidate = <<>>
    /\ vpc = "start"
    /\ vres = NoResult
    /\ vres2 = NoResult
    /\ hpc = "idle"
    /\ request_user \in Users
    /\ request_limit = MaxTurns
    /\ requests = 0
    /\ orchestrator_calls = 0
    /\ HandlerLocalsBlank
    /\ audit_calls = 0
    /\ audit_trail = <<>>
    /\ history = <<>>
    /\ msg_box = <<>>
    /\ conv_id = None
    /\ source_label = <<>>
    /\ results_table = Hidden

SessionSpec == SessionInit /\ [][ChatNext]_vars

-----------------------------------------------------------------------------
(* The validator applied to a candidate, and then to its own output *)

ValidatorInit ==
    /\ candidate \in Candidates
    /\ vpc = "start"
    /\ vres = NoResult
    /\ vres2 = NoResult
    /\ OrchestratorIdle
    /\ HandlerAbsent

Validate ==
    /\ vpc = "start"
    /\ \E r \in validate_sql(candidate) : vres' = r
    /\ vpc' = "validated"
    /\ UNCHANGED <<candidate, vres2>>
    /\ UNCHANGED <<ovars, hvars>>

Revalidate ==
    /\ vpc = "validated"
    /\ vres.ok
    /\ \E r \in validate_sql(vres.sql) : vres2' = r
    /\ vpc' = "revalidated"
    /\ UNCHANGED <<candidate, vres>>
    /\ UNCHANGED <<ovars, hvars>>

ValidatorNext == Validate \/ Revalidate

ValidatorSpec == ValidatorInit /\ [][ValidatorNext]_vars

-----------------------------------------------------------------------------
(* Notions the validator's properties are stated in *)

validated == vpc # "start"

\* s holds a ";" with something other than whitespace and ";" after it
HasSecondStatement(s) ==
    \E i \in 1..Len(s) :
        /\ s[i] = ";"
        /\ \E j \in (i + 1)..Len(s) : s[j] \notin WhiteSpace \cup {";"}

\* the first token of s, upper-cased (the empty sequence when s does not
\* start with a word)
FirstToken(s) ==
    LET i == SkipWs(s, 1) IN Upper(SubSeq(s, i, WordEnd(s, i)))

\* the first word after the first parenthesised group of s, upper-cased
WordAfterParens(s) ==
    LET opens == {i \in 1..Len(s) : s[i] = "("}
    IN  IF opens = {} THEN <<>>
        ELSE LET o == CHOOSE i \in opens : \A k \in opens : i <= k
                 c == CloseParen(s, o + 1, 1)
                 d == SkipWs(s, c + 1)
             IN  IF c = 0 THEN <<>> ELSE Upper(SubSeq(s, d, WordEnd(s, d)))

\* the blocklisted keywords that occur in s as whole words, in any letter case
BlockedWordsIn(s) ==
    LET u == Upper(s)
    IN  {kw \in BLOCKED_SQL_KEYWORDS : \E i \in 1..Len(u) : WordAt(u, kw, i)}

\* the blocklisted keywords that occur in s at all, in any letter case
BlockedSubstringsIn(s) ==
    LET u == Upper(s)
    IN  {kw \in BLOCKED_SQL_KEYWORDS :
            \E i \in 1..Len(u) :
                /\ i + Len(kw) - 1 <= Len(u)
                /\ SubSeq(u, i, i + Len(kw) - 1) = kw}

\* position i of s lies inside a single-quoted literal
InLiteral(s, i) == Cardinality({j \in 1..(i - 1) : s[j] = "'"}) % 2 = 1

\* s holds the keyword LIMIT outside every quoted literal: what any row-limit
\* clause needs
HasLimitClause(s) ==
    LET u == Upper(s)
    IN  \E i \in 1..Len(u) : WordAt(u, KW_LIMIT, i) /\ ~InLiteral(s, i)

\* the candidate without surrounding whitespace and then without trailing ";"
Trimmed(s) == rstrip_semi(rstrip(lstrip(s)))

\* the candidate without surrounding whitespace and then without one trailing ";"
TrimmedOne(s) == rstrip_semi_one(rstrip(lstrip(s)))

DefaultCap == <<" ", "L", "I", "M", "I", "T", " ", "1", "0", "0", "0", "0">>

-----------------------------------------------------------------------------
(* Properties of validate_sql *)

\* C1: a candidate with a second statement after a ";" separator is rejected
\* as multi-statement and yields no sanitized statement.
C1_MultiStatementRejected ==
    (validated /\ HasSecondStatement(candidate))
        => (~vres.ok /\ vres.err = ErrMulti /\ vres.sql = <<>>)

C1_Witness ==
    /\ vpc = "validated"
    /\ candidate = ScnMulti
    /\ vres = Fail(ErrMulti, <<>>)

C3_BlockedWordRejected ==
    /\ (validated /\ BlockedWordsIn(candidate) # {}) => ~vres.ok
    /\ (/\ validated
        /\ BlockedSubstringsIn(candidate) # {}
        /\ BlockedWordsIn(candidate) = {}
        /\ ~Contains(Trimmed(candidate), ";")
        /\ FirstToken(candidate) = KW_SELECT) => vres.ok

C3_Witness ==
    /\ vpc = "validated"
    /\ candidate = SelA \o Sp \o MixDrop
    /\ vres = Fail(ErrBlocked, KW_DROP)

\* C4 as stated: whenever a candidate holds a blocklisted keyword as a whole
\* word, the failure names that keyword ("update t set x=1" names UPDATE).
C4_FailureNamesKeyword ==
    (validated /\ BlockedWordsIn(candidate) # {})
        => (~vres.ok /\ vres.err = ErrBlocked /\ vres.kw \in BlockedWordsIn(candidate))

\* C4 amended: when the trimmed candidate is a single statement of type SELECT
\* and holds a blocklisted keyword as a whole word, the failure names one of the
\* blocklisted keywords that occur in it; a candidate rejected by an earlier
\* step carries that step's message and names no keyword: "update t set x=1"
\* is rejected with "Only SELECT queries are allowed.".
C4_BlockedKeywordNamed ==
    /\ (/\ validated
        /\ BlockedWordsIn(candidate) # {}
        /\ ~Contains(Trimmed(candidate), ";")
        /\ get_type(Trimmed(candidate)) = KW_SELECT)
           => (~vres.ok /\ vres.err = ErrBlocked
                 /\ vres.kw \in BlockedWordsIn(candidate))
    /\ (validated /\ vres.err = ErrBlocked) => vres.kw \in BlockedWordsIn(candidate)
    /\ (validated /\ vres.err # ErrBlocked) => vres.kw = <<>>
    /\ (validated /\ candidate = ScnUpdate) => vres = Fail(ErrSelect, <<>>)

C4_Witness ==
    /\ vpc = "validated"
    /\ candidate = SelA \o DropT \o Upd
    /\ vres = Fail(ErrBlocked, KW_UPDATE)

\* C5: a candidate that passes validation and has no row-limit clause is
\* returned trimmed with exactly one default cap " LIMIT 10000" appended.
C5_CapAppended ==
    (validated /\ vres.ok /\ ~HasLimitClause(candidate))
        => vres.sql = Trimmed(candidate) \o DefaultCap

\* C6: a candidate that passes validation and already holds a row-limit clause
\* is returned as the statement it is after trimming, nothing appended and no
\* character altered; an already trimmed candidate is returned as it is.
C6_LimitedUnchanged ==
    /\ (validated /\ vres.ok /\ HasLimitClause(candidate))
           => vres.sql = Trimmed(candidate)
    /\ (validated /\ vres.ok /\ HasLimitClause(candidate)
          /\ Trimmed(candidate) = candidate) => vres.sql = candidate

C6_Witness ==
    /\ vpc = "validated"
    /\ candidate = SelLim
    /\ vres = Ok(SelLim)

\* C7: validate_sql applied to its own output succeeds and returns it unchanged.
C7_Idempotent ==
    vpc = "revalidated" => (vres2.ok /\ vres2.sql = vres.sql)

\* C8: every returned string is one statement, starts with SELECT, holds no
\* blocklisted keyword as a whole word and holds a row-limit clause.
C8_ValidatedQueryInvariants ==
    (validated /\ vres.ok)
        => /\ ~Contains(vres.sql, ";")
           /\ FirstToken(vres.sql) = KW_SELECT
           /\ BlockedWordsIn(vres.sql) = {}
           /\ HasLimitClause(vres.sql)

\* C9 as stated: after trimming whitespace and at most one trailing ";", a
\* candidate in which a ";" remains ("SELECT 1;;") is rejected as
\* multi-statement.  Stated here by what it implies, rejection with whatever
\* message, which the validator already fails to do.
C9_OneSeparatorTrimmed ==
    (validated /\ Contains(TrimmedOne(candidate), ";")) => ~vres.ok

\* C9 amended: validate_sql trims surrounding whitespace and then every
\* trailing ";"; the candidate is rejected as multi-statement exactly when a
\* ";" remains after that, and "SELECT 1;;" is accepted as "SELECT 1" with the
\* default cap.
C9_AllSeparatorsTrimmed ==
    /\ validated => (Contains(Trimmed(candidate), ";") <=> vres = Fail(ErrMulti, <<>>))
    /\ (validated /\ vres.ok)
           => vres.sql \in {Trimmed(candidate), Trimmed(candidate) \o DefaultCap}
    /\ (validated /\ candidate = ScnSemiSemi)
           => vres = Ok(<<"S", "E", "L", "E", "C", "T", " ", "1">> \o DefaultCap)

C9_Witness ==
    /\ vpc = "validated"
    /\ candidate = SelA \o Semi \o Semi
    /\ vres = Ok(SelA \o DefaultCap)

-----------------------------------------------------------------------------
(* Properties of chat_with_data *)

returned == pc = "returned"

Logged(op) == \E i \in 1..Len(log) : log[i].op = op

\* C10: with mock mode off and tier 1 configured, when the tier-1 attempt
\* raises (transport error or malformed reply on submit/continue or on a status
\* fetch, FAILED, UNABLE_TO_ANSWER, timeout), chat_with_data makes the tier-2
\* generation call before it returns; the tier-1 error is not the exception the
\* caller gets, and it is in no field of the returned response.
C10_Tier1ErrorFallsBack ==
    /\ t1_raised # NoExc => (~use_mock /\ genie_configured)
    /\ (t1_raised # NoExc /\ pc = "raised") => t2_raised # NoExc
    /\ (t1_raised # NoExc /\ pc \in {"t2_execute", "t2_summary", "t2_except", "returned"})
           => Logged("generate")
    /\ (t1_raised # NoExc /\ returned)
           => /\ response.source # "genie"
              /\ response.error \in {None, str(t2_raised)}
              /\ response.error # str(t1_raised)
              /\ response.text # str(t1_raised)
    /\ pc = "t1_except" => (exc # NoExc /\ ~Logged("generate"))

C10_Witness ==
    /\ returned
    /\ t1_raised = GenieTimeout
    /\ Logged("generate")
    /\ response.source = "bedrock"
    /\ response.error = None

-----------------------------------------------------------------------------

\* the positions of the calls of one kind in the log
Calls(op) == {i \in 1..Len(log) : log[i].op = op}

RECURSIVE SleptFor(_)
\* the seconds the logged sleeps add up to
SleptFor(l) ==
    IF l = <<>> THEN 0
    ELSE (IF l[1].op = "sleep" THEN l[1].n ELSE 0) + SleptFor(Tail(l))

\* C11: when every status fetched is non-terminal until the maximum wait is used
\* up, _poll_genie raises TimeoutError and chat_with_data goes on to tier 2: the
\* timeout is raised exactly when the poll loop is entered with elapsed >=
\* max_wait, after sleeps that add up to elapsed and without a further fetch;
\* the handler stores it and the next call made is the tier-2 generation.
C11_TimeoutFallsToTier2 ==
    /\ [](exc = GenieTimeout
            => /\ pc = "t1_except"
               /\ elapsed >= MAX_WAIT
               /\ SleptFor(log) = elapsed
               /\ log[Len(log)].op = "sleep")
    /\ [][(pc = "t1_poll" /\ elapsed >= MAX_WAIT)
            => (exc' = GenieTimeout /\ pc' = "t1_except" /\ log' = log)]_vars
    /\ [][exc = GenieTimeout
            => (pc' = "t2_generate" /\ t1_raised' = GenieTimeout /\ log' = log)]_vars
    /\ []((t1_raised = GenieTimeout /\ pc # "t2_generate")
            => (Logged("generate")
                /\ log[Cardinality(Calls("fetch")) + Cardinality(Calls("sleep")) + 2].op
                       = "generate"))

C11_Witness ==
    /\ pc = "t2_execute"
    /\ t1_raised = GenieTimeout
    /\ Cardinality(Calls("fetch")) = 14
    /\ elapsed = 62
    /\ log[Len(log) - 1].op = "generate"

\* out is "UNABLE_TO_ANSWER:" followed by a reason
IsSentinel(out) == startswith(out, SENTINEL \o <<":">>)

\* the reason: what follows "UNABLE_TO_ANSWER:", without the blanks around it
SentinelReason(out) == strip(SubSeq(out, Len(SENTINEL) + 2, Len(out)))

\* C12: when the tier-2 generation output is "UNABLE_TO_ANSWER: <reason>", the
\* returned response has the reason as its explanation (after the fixed lead-in
\* "I couldn't find data to answer that. "), no DataFrame, no SQL, no error and
\* source "bedrock", and the request called neither validate_sql nor the
\* executor: the generation call is the last call it made.
C12_SentinelExplained ==
    IsSentinel(raw_sql)
        => /\ returned
           /\ response = ChatResponse(CouldNotFind \o SentinelReason(raw_sql),
                                      NoDf, None, None, "bedrock", None)
           /\ Calls("validate") = {}
           /\ Calls("execute") = {}
           /\ log[Len(log)].op = "generate"

C12_Witness ==
    /\ returned
    /\ raw_sql = strip(SentinelPadded)
    /\ response.text = CouldNotFind \o
           <<"c","o","l","u","m","n",":"," ","r","p","m"," ","m","i","s","s","i","n","g">>
    /\ response.source = "bedrock"
    /\ t1_raised = GenieUnable

\* the text _mock_response builds around the question
MockText(q) == <<"[MOCK] Simulated response for: '">> \o q \o <<"' ...">>

Shared(a, b) == {a[i] : i \in 1..Len(a)} \cap {b[i] : i \in 1..Len(b)}

Accepts(a) == \E r \in validate_sql(a) : r.ok

\* C15: in every execution of chat_with_data the executor is called only with a
\* string that validate_sql returned, just before, for the SQL this request got
\* from tier 1 (the query attachment) or tier 2 (the agent output); and after a
\* validate_sql call that failed the executor is not called at all.
C15_ValidatedBeforeExecuted ==
    /\ \A i \in Calls("execute") :
          /\ i > 1
          /\ log[i - 1].op = "validate"
          /\ log[i - 1].arg \in {genie_sql, raw_sql}
          /\ \E r \in validate_sql(log[i - 1].arg) : r.ok /\ r.sql = log[i].arg
    /\ \A i \in Calls("validate") :
          ~Accepts(log[i].arg) => (i = Len(log) /\ Calls("execute") = {})
    /\ Cardinality(Calls("validate")) <= 1

C15_Witness ==
    /\ returned
    /\ genie_sql = SelA
    /\ Calls("execute") # {}
    /\ log[Len(log)] = Ev("execute", SelA \o DefaultCap, 0)
    /\ log[Len(log) - 1] = Ev("validate", SelA, 0)
    /\ response.dataframe = Df(2)

\* an identifier was supplied: conversation_id is neither None nor empty
Supplied == conv_in \notin {None, <<>>}

\* C20: a response of tier 1 has source "genie" and the conversation id of the
\* tier: the one the submit call returned when none was supplied, and the
\* supplied one when there was; the request made one submit call, and it was
\* _continue_genie exactly when an identifier was supplied.
C20_Tier1ConversationId ==
    /\ (returned /\ ~use_mock /\ t1_raised = NoExc /\ Calls("fetch") # {})
          => /\ response.source = "genie"
             /\ response.error = None
             /\ response.conversation_id = IF Supplied THEN conv_in ELSE IssuedConv
    /\ (returned /\ response.source = "genie")
          => (t1_raised = NoExc /\ Calls("fetch") # {} /\ ~Logged("generate"))
    /\ Calls("continue") \cup Calls("start") \subseteq {1}
    /\ Logged("continue") => Supplied
    /\ Logged("start") => ~Supplied
    /\ Logged("continue") => log[1].arg = conv_in

C20_Witness ==
    /\ returned
    /\ conv_in = KeptConv
    /\ Logged("continue")
    /\ log[1] = Ev("continue", KeptConv, 0)
    /\ response.source = "genie"
    /\ response.conversation_id = KeptConv
    /\ response.dataframe = Df(2)

-----------------------------------------------------------------------------
(* Properties of the chat handler *)

\* respond has its result and its reply and has called log_event
logged == hpc = "logged"

\* values a response's sql and error may have
SomeSql == {None, MockSql, SelA, SelA \o DefaultCap}
SomeErrors == {<<ErrSelect>>, <<ErrBlocked>> \o KW_DROP, DatabaseError.msg, AgentError.msg}

\* C16: the reply respond appends to the visible history is the response's text
\* when its error is unset (None or empty) and the handler's fixed apology when
\* it is set; so it is the same for two responses that differ only in sql, or
\* only in what a set error says.
C16_ReplyHidesSqlAndError ==
    /\ [](logged
            => /\ reply = IF result.error \in {None, <<>>} THEN result.text
                          ELSE HandlerApology
               /\ \A q \in SomeSql :
                     visible_reply([result EXCEPT !.sql = q]) = reply
               /\ \A e \in SomeErrors :
                     result.error \notin {None, <<>>}
                         => visible_reply([result EXCEPT !.error = e]) = reply
               /\ (result.error \notin {None, <<>>}
                     => Shared(reply, result.error) = {}))
    /\ [][logged => history' = history \o <<[role |-> "user", content |-> message],
                                             [role |-> "assistant", content |-> reply]>>]_vars

C16_Witness ==
    /\ hpc = "idle"
    /\ Len(history) = 2
    /\ history[2] = [role |-> "assistant", content |-> HandlerApology]
    /\ audit_trail # <<>>
    /\ audit_trail[1].ai_source = "error"

\* the row this request's log_event call appended
LastRow == audit_trail[Len(audit_trail)]

\* C17: when a chat request ends in a tier-2 failure, the row recorded for it
\* carries the error text of the response, cut to ERROR_CAP characters.
C17_AuditCarriesError ==
    (logged /\ audit_outcome = "written" /\ result.error # None)
        => LastRow.error = Prefix(result.error, ERROR_CAP)

\* C18 as stated: every request the chat handler has received and finished has
\* made exactly one log_event call.
C18_OneEventPerRequest ==
    hpc = "idle" => audit_calls = requests

\* C18 amended: every request whose stripped message is not empty and not
\* longer than MAX_MESSAGE_LEN makes exactly one chat_with_data call and then,
\* once that call has returned, exactly one log_event call, whichever tier
\* answered or failed; a request with an empty or over-long message returns
\* without either call.
C18_OneEventPerAcceptedRequest ==
    /\ [](/\ hpc = "idle" => audit_calls = orchestrator_calls
          /\ hpc = "calling" => audit_calls = orchestrator_calls - 1
          /\ logged => (audit_calls = orchestrator_calls /\ pc = "idle")
          /\ orchestrator_calls <= requests)
    /\ [][audit_calls' # audit_calls
            => /\ audit_calls' = audit_calls + 1
               /\ hpc = "calling"
               /\ pc = "returned"
               /\ result' = response]_vars
    /\ [][requests' # requests
            => \/ /\ orchestrator_calls' = orchestrator_calls + 1
                  /\ ~rejects(message')
                  /\ pc' = "entry"
               \/ /\ hpc' = "idle"
                  /\ rejects(msg_box')
                  /\ UNCHANGED <<orchestrator_calls, audit_calls, audit_trail, ovars>>]_vars

C18_Witness ==
    /\ hpc = "idle"
    /\ requests = 1
    /\ audit_calls = 1
    /\ Len(audit_trail) = 1
    /\ audit_trail[1].ai_source = "bedrock"
    /\ audit_trail[1].row_count = 2
    /\ Len(history) = 2

\* C19: a failure while log_event creates the log file or writes the row is
\* swallowed inside log_event: nothing is raised into respond, no row is added,
\* and respond goes on to return the reply in the updated history and the
\* conversation id of the response.
C19_AuditFailureSwallowed ==
    /\ [](hpc # "raised" /\ audit_outcome # "raised")
    /\ [](audit_outcome = "failed"
            => (logged /\ reply = visible_reply(result)
                /\ Len(audit_trail) < audit_calls))
    /\ [][audit_outcome = "failed"
            => /\ hpc' = "idle"
               /\ history' = history \o <<[role |-> "user", content |-> message],
                                           [role |-> "assistant", content |-> reply]>>
               /\ conv_id' = result.conversation_id
               /\ audit_trail' = audit_trail]_vars

C19_Witness ==
    /\ hpc = "idle"
    /\ audit_calls = 1
    /\ audit_trail = <<>>
    /\ Len(history) = 2
    /\ history[2].content = GenieText
    /\ conv_id = IssuedConv

(* C21: across the turns of a session, once tier 1 has issued a conversation
   identifier the handler passes it to chat_with_data on every later turn,
   and the stored identifier goes back to none only through Clear Chat.
   respond stores result.conversation_id whatever it is, and the tier-2 and
   error responses carry None: a turn answered by the fallback drops the
   identifier that tier 1 issued, with no Clear Chat. *)
C21_OnlyClearChatResets ==
    [][(conv_id # None /\ conv_id' = None) => ClearChat]_vars

\* the step that leaves the materialisation of a tier-1 query without rows
MaterializeFailed == pc = "t1_materialize" /\ pc' # "t1_materialize" /\ df' = NoDf

(* C22: when a tier-1 job is COMPLETED with a query attachment and validating
   or executing that query fails, the poller does not fail: the request
   returns at once with a tier-1 response carrying the explanation text (the
   default text when none was attached), no rows and no error, and no tier-2
   generation call has been or will be made. *)
C22_MaterializeFailureKept ==
    [][MaterializeFailed =>
          /\ pc' = "returned"
          /\ response'.source = "genie"
          /\ response'.text = (IF genie_text # <<>> THEN genie_text ELSE DefaultGenieText)
          /\ response'.dataframe = NoDf
          /\ response'.error = None
          /\ response'.conversation_id = conv
          /\ \A i \in 1..Len(log') : log'[i].op # "generate"]_vars

\* a tier-1 query was validated and handed to the executor, the executor raised,
\* and the response has the default text and no rows
C22_Witness ==
    /\ returned
    /\ Truthy(genie_sql)
    /\ genie_text = <<>>
    /\ log # <<>>
    /\ log[Len(log)].op = "execute"
    /\ df = NoDf
    /\ response.source = "genie"
    /\ response.text = DefaultGenieText

(* C23: in tier 2, after the statement has validated and executed, a failing
   summarization call never fails the request: the summary step always ends in
   a tier-2 success carrying the rows and the sanitized SQL, and whenever its
   text is not the generated summary (the call raised) it is the row-count
   message for the number of rows returned. *)
C23_SummaryFailureKept ==
    [][(pc = "t2_summary" /\ pc' # "t2_summary") =>
          /\ pc' = "returned"
          /\ response'.source = "bedrock"
          /\ response'.error = None
          /\ response'.dataframe = df
          /\ response'.sql = safe_sql
          /\ (response'.text # InsightText => response'.text = count_message(df[1]))]_vars

\* the summarization call was made and failed: two rows, and the count message
C23_Witness ==
    /\ returned
    /\ log # <<>>
    /\ log[Len(log)].op = "summarize"
    /\ response.source = "bedrock"
    /\ response.dataframe = Df(2)
    /\ response.sql = safe_sql
    /\ response.text = <<"Found ", "2", " row(s).">>

\* the waits of the request so far, in order
Sleeps == SelectSeq(log, LAMBDA ev : ev.op = "sleep")

\* 1, 2, 4, 5, 5, ...
Backoff(i) == IF i = 1 THEN 1 ELSE IF i = 2 THEN 2 ELSE IF i = 3 THEN 4 ELSE 5

(* C24: between status fetches the poller waits with exponential backoff: the
   first wait is 1 second, each later wait is double the one before, capped at
   5 seconds (1, 2, 4, 5, 5, ...); the next wait to come follows the same rule,
   and every wait comes directly after a status fetch, which a terminal status
   would have ended with a return or a raise instead. *)
C24_Backoff ==
    /\ \A i \in 1..Len(Sleeps) :
        /\ Sleeps[i].n = Backoff(i)
        /\ Sleeps[i].n <= BACKOFF_CAP
        /\ i > 1 => Sleeps[i].n = Min(2 * Sleeps[i - 1].n, BACKOFF_CAP)
    /\ pc \in {"t1_poll", "t1_sleep"} => wait = Backoff(Len(Sleeps) + 1)
    /\ \A i \in Calls("sleep") : i > 1 /\ log[i - 1].op = "fetch"
    /\ pc = "t1_sleep" => log # <<>> /\ log[Len(log)].op = "fetch"

\* five waits have been made: 1, 2, 4, 5 and 5 seconds
C24_Witness ==
    /\ Len(Sleeps) >= 5
    /\ Sleeps[4].n = 5
    /\ Sleeps[5].n = 5
    /\ elapsed = 17

(* C25: every invocation of chat_with_data eventually returns a ChatResponse
   and never raises, provided every outbound call returns or raises; the
   polling is part of the invocation: once the response has been returned no
   status fetch, and no other call, is made for the request. *)
C25_AlwaysReturns ==
    /\ <>(returned /\ response # NoResponse)
    /\ [](pc # "raised")
    /\ [](pc = "t1_materialize" => validate_sql(genie_sql) # {})
    /\ [][returned => (returned' /\ log' = log /\ response' = response)]_vars

\* both tiers failed, the first by the poll timeout, and the request returned
C25_Witness ==
    /\ returned
    /\ t1_raised = GenieTimeout
    /\ t2_raised # NoExc
    /\ response.source = "error"
    /\ Cardinality(Calls("fetch")) >= 14

(* C26: the blocklist scan does not tell quoted literals from keywords: a
   candidate that starts with SELECT and holds a blocklisted word only inside
   single-quoted literals (WHERE note = 'DROP') is rejected, and when it is one
   statement the failure is the blocked-keyword error naming a word of the
   literal. *)
C26_LiteralsScanned ==
    (/\ validated
     /\ FirstToken(candidate) = KW_SELECT
     /\ BlockedWordsIn(candidate) # {}
     /\ BlockedWordsIn(Unquoted(candidate, FALSE)) = {})
        => /\ ~vres.ok
           /\ ~Contains(Trimmed(candidate), ";")
                 => (vres.err = ErrBlocked /\ vres.kw \in BlockedWordsIn(candidate))

C26_Witness ==
    /\ vpc = "validated"
    /\ candidate = ScnLitDrop
    /\ vres = Fail(ErrBlocked, KW_DROP)

(* C27: every ChatResponse returned by chat_with_data carries a source tag
   that is one of "genie", "bedrock" and "mock" and names the tier that
   produced it. The response built when tier 2 fails is tagged "error". *)
C27_SourceNamesTier ==
    returned =>
        /\ response.source \in {"genie", "bedrock", "mock"}
        /\ response.source = "mock" <=> use_mock
        /\ response.source = "genie" => (genie_configured /\ t1_raised = NoExc)
        /\ response.source = "bedrock" => Logged("generate")

\* the tier-1 submit/continue calls and the tier-2 generation calls made so far
Submits == Calls("start") \cup Calls("continue")
Generates == Calls("generate")

(* C28: the tiers are attempted in order and at most once per request: the
   tier-1 submit/continue call is made only with mock mode off and tier 1
   configured; the tier-2 generation call is made only with mock mode off and
   tier 1 either not configured or already failed, and then after the tier-1
   call; after a tier-1 success no tier-2 call is made. *)
C28_TiersInOrder ==
    /\ Cardinality(Submits) <= 1
    /\ Cardinality(Generates) <= 1
    /\ Submits # {} => (~use_mock /\ genie_configured)
    /\ Generates # {} => (~use_mock /\ (~genie_configured \/ t1_raised # NoExc))
    /\ (Generates # {} /\ genie_configured) => Submits # {}
    /\ \A i \in Submits, j \in Generates : i < j
    /\ (returned /\ response.source = "genie") => Generates = {}
    /\ use_mock => log = <<>>

\* tier 1 was tried and failed, then tier 2 answered
C28_Witness ==
    /\ returned
    /\ Submits # {}
    /\ Generates # {}
    /\ t1_raised # NoExc
    /\ response.source = "bedrock"

\* _poll_genie has raised TimeoutError, caught or still in flight
TimedOut == exc = GenieTimeout \/ t1_raised = GenieTimeout

(* C29: the poll loop makes a bounded number of status fetches: at most 14
   with the default maximum wait of 60; when it raises TimeoutError the
   accumulated wait is at least the maximum wait and less than the maximum
   wait plus the 5-second cap; every status fetch is made with an accumulated
   wait below the maximum. *)
C29_BoundedPolling ==
    /\ Cardinality(Calls("fetch")) <= 14
    /\ elapsed = SleptFor(log)
    /\ TimedOut => (elapsed >= MAX_WAIT /\ elapsed < MAX_WAIT + BACKOFF_CAP)
    /\ \A i \in Calls("fetch") : SleptFor(SubSeq(log, 1, i - 1)) < MAX_WAIT

\* fourteen fetches, none terminal: the timeout is raised after 62 seconds
C29_Witness ==
    /\ pc = "t1_except"
    /\ exc = GenieTimeout
    /\ Cardinality(Calls("fetch")) = 14
    /\ elapsed = 62

(* C30: whenever a tier-1 or tier-2 response carries result rows, its sql field
   (the text kept for the audit record) is exactly the sanitized statement the
   executor was handed to produce them. Tier 2 returns safe_sql; tier 1 returns
   the query attachment as Genie wrote it, while the executor got
   validate_sql(sql): trimmed, and with the row cap appended when it had none. *)
C30_SqlIsWhatRan ==
    (returned /\ response.source \in {"genie", "bedrock"} /\ response.dataframe # NoDf)
        => /\ Calls("execute") # {}
           /\ \A i \in Calls("execute") : log[i].arg = response.sql

=============================================================================
